---------------------------- MODULE Spec2Model ----------------------------
(***************************************************************************)
(* Conduit command relay: the channel broker (src/socket.ts) and the       *)
(* dispatcher of the MCP server (server/websocket.ts).                     *)
(*                                                                         *)
(* Time is counted in units of 60000 ms.  Strings of the program that are  *)
(* searched by substring (request ids, command names) are sequences of     *)
(* one-character strings; the empty sequence stands for an absent (or      *)
(* empty, hence falsy) id or command.  JavaScript values carried as        *)
(* result / error are strings ("r42", "boom"); "undef" is undefined.       *)
(***************************************************************************)
EXTENDS Integers, Sequences, FiniteSets, TLC

\* ------------------------------------------------------------- bounds
MaxConns == 2
MaxCalls == 2
MaxHandles == 2
MaxTime == 11
MaxQueue == 1

\* ------------------------------------------------- program constants
DefaultTimeoutMs == 1
ExportTimeoutMs == 2
ProgressExtensionMs == 1
MaxTimeoutExtensions == 3
\* reconnect schedule, in seconds
MaxReconnectAttempts == 5
MaxDelayS == 30
PersistentRetryDelayS == 8
MaxRetries == 7

\* --------------------------------------------------------- JS values
NoId == <<>>
\* an id member that is present but falsy (null, "" or 0)
NullId == <<"null">>
Undef == "undef"
\* values that are falsy in a JavaScript condition
Falsy == {"undef", "null", "r0", ""}
Truthy(v) == v \notin Falsy
\* a || b
JsOr(a, b) == IF Truthy(a) THEN a ELSE b

Lower(ch) == IF ch = "A" THEN "a" ELSE IF ch = "B" THEN "b" ELSE ch
\* String.prototype.toLowerCase
ToLowerCase(s) == [i \in DOMAIN s |-> Lower(s[i])]
\* String.prototype.includes: sub occurs in s as a contiguous substring
Includes(s, sub) ==
    \E i \in 0..(Len(s) - Len(sub)) :
        \A k \in 1..Len(sub) : s[i + k] = sub[k]

\* ------------------------------------------------------------ frames
\* The nested `message` member of an envelope: absent, a string, or an object.
NoMsg ==
    [kind |-> "undef", text |-> "", id |-> NoId, result |-> Undef,
     error |-> Undef, command |-> NoId, data |-> FALSE, extra |-> 0]
StrMsg(t) == [NoMsg EXCEPT !.kind = "string", !.text = t]
ObjMsg(i, r, e, cmd, d, x) ==
    [kind |-> "object", text |-> "", id |-> i, result |-> r, error |-> e,
     command |-> cmd, data |-> d, extra |-> x]
Frame(t, i, ch, m) ==
    [type |-> t, id |-> i, channel |-> ch, result |-> Undef, error |-> Undef,
     sender |-> 0, message |-> m]
NoFrame == Frame("none", NoId, "", NoMsg)

\* Object.keys(nestedMessage).length for an object message
KeyCount(m) ==
    (IF m.id # NoId THEN 1 ELSE 0) + (IF m.result # Undef THEN 1 ELSE 0)
    + (IF m.error # Undef THEN 1 ELSE 0) + (IF m.command # NoId THEN 1 ELSE 0)
    + (IF m.data THEN 1 ELSE 0) + m.extra

\* nestedMessage?.x : undefined unless the message is an object
MsgId(f) == IF f.message.kind = "object" THEN f.message.id ELSE NoId
MsgResult(f) == IF f.message.kind = "object" THEN f.message.result ELSE Undef
MsgError(f) == IF f.message.kind = "object" THEN f.message.error ELSE Undef
MsgCommand(f) == IF f.message.kind = "object" THEN f.message.command ELSE NoId
MsgData(f) == f.message.kind = "object" /\ f.message.data

\* ---------------------------------------------------------- universe
Conns == 1..MaxConns
ChannelNames == {"c1", "c2"}
\* a channel member of a frame: absent/empty, a name, or a non-string value
NonString == "#num"
IsString(ch) == ch # NonString
\* uuidv4(): the k-th id generated; ids are distinct, of one length, and made of
\* hexadecimal characters only
HexDigit(n) == IF n % 2 = 0 THEN "a" ELSE "b"
Uuid(k) == <<HexDigit(k \div 4), HexDigit(k \div 2), HexDigit(k)>>
Uuids == {Uuid(k) : k \in 1..MaxCalls}
\* command names
JoinCmd == <<"j", "o", "i", "n">>
GetCmd == <<"g", "e", "t">>

VARIABLES
    \* ---- broker (src/socket.ts)
    cstate,             \* per connection: "idle" | "open" | "closed"
    channels,           \* Map channel name -> Set of member connections
    wsChannel,          \* ws.data.channel of each connection ("" = unset)
    activeConnections,  \* stats.activeConnections
    out,                \* frames sent by the broker handler that ran last
    \* ---- the dispatcher's physical link to the broker
    dconn,              \* broker connection of the dispatcher's socket, 0 = none
    toBroker,           \* frames the dispatcher transmitted, not yet processed
    toDisp,             \* frames sent to the dispatcher, not yet handled
    retry,              \* the handle's reconnect schedule since it was last open
    \* ---- dispatcher (server/websocket.ts)
    ws,                 \* "null" or the handle's readyState
    handles,            \* number of ReconnectingWebSocket handles created
    connTimer,          \* connectionTimeout of the current handle is armed
    staleTimers,        \* armed connectionTimeouts of handles torn down
    savedServerUrl,     \* "" until setConnectionConfig
    currentChannel,     \* "" (null) or the joined channel
    pendingRequests,    \* the Map, in insertion order
    onOpen,             \* onOpen listeners of lazy sends on the current handle
    uuids,              \* number of ids generated so far
    now,                \* Date.now()
    calls,              \* every call of sendCommandToFigma and its promise
    ev                  \* the dispatcher handler that ran last, and its input

brokerVars == <<cstate, channels, wsChannel, activeConnections, out>>
wireVars == <<dconn, toBroker, toDisp, retry>>
dispVars == <<ws, handles, connTimer, staleTimers, savedServerUrl, currentChannel,
              pendingRequests, onOpen, uuids, now, calls, ev>>
vars == <<cstate, channels, wsChannel, activeConnections, out, dconn, toBroker, toDisp, retry,
          ws, handles, connTimer, staleTimers, savedServerUrl, currentChannel,
          pendingRequests, onOpen, uuids, now, calls, ev>>

\* ===================================================================
\* Channel broker
\* ===================================================================
HasChannel(n) == n \in DOMAIN channels
Members(n) == IF HasChannel(n) THEN channels[n] ELSE {}
\* client.readyState === WebSocket.OPEN
IsOpen(c) == cstate[c] = "open"
To(c, f) == [to |-> c, frame |-> f]

SystemFrame(text, ch, i) == Frame("system", i, ch, StrMsg(text))
ErrorFrame(text) == Frame("error", NoId, "", StrMsg(text))
BroadcastFrame(m, from, ch) == [Frame("broadcast", NoId, ch, m) EXCEPT !.sender = from]

\* handleConnection: the websocket.open handler
HandleConnection(c) ==
    /\ cstate' = [cstate EXCEPT ![c] = "open"]
    /\ activeConnections' = activeConnections + 1
    /\ wsChannel' = [wsChannel EXCEPT ![c] = ""]
    /\ out' = {To(c, SystemFrame("welcome", "", NoId))}
    /\ UNCHANGED channels

\* websocket.message, case "join"
CaseJoin(c, d) ==
    LET channelName == d.channel IN
    IF ~Truthy(channelName) \/ ~IsString(channelName)
    THEN /\ out' = {To(c, ErrorFrame("Channel name is required for join."))}
         /\ UNCHANGED <<channels, wsChannel>>
    ELSE LET channelClients == Members(channelName) \cup {c} IN
         /\ channels' = [n \in DOMAIN channels \cup {channelName} |->
                            IF n = channelName THEN channelClients ELSE channels[n]]
         /\ wsChannel' = [wsChannel EXCEPT ![c] = channelName]
         /\ out' = {To(c, SystemFrame("joined", channelName, d.id))}
                   \cup {To(o, SystemFrame("peer-joined", channelName, NoId)) :
                            o \in {x \in channelClients : x # c /\ IsOpen(x)}}

\* a broker that answers an accepted message to its sender only
CaseMessageSenderOnly(c, d) ==
    LET channelName == JsOr(d.channel, wsChannel[c]) IN
    IF ~Truthy(channelName) \/ ~IsString(channelName)
    THEN /\ out' = {To(c, ErrorFrame("Channel name is required for message."))}
         /\ UNCHANGED <<channels, wsChannel>>
    ELSE IF ~HasChannel(channelName) \/ c \notin channels[channelName]
    THEN /\ out' = {To(c, ErrorFrame("Must join the channel first or provide a valid channel."))}
         /\ UNCHANGED <<channels, wsChannel>>
    ELSE /\ out' = {To(c, BroadcastFrame(d.message, c, channelName))}
         /\ UNCHANGED <<channels, wsChannel>>

\* a broker that relays a message to every open connection, whatever its channel
CaseMessageToAll(c, d) ==
    LET channelName == JsOr(d.channel, wsChannel[c]) IN
    IF ~Truthy(channelName) \/ ~IsString(channelName)
    THEN /\ out' = {To(c, ErrorFrame("Channel name is required for message."))}
         /\ UNCHANGED <<channels, wsChannel>>
    ELSE IF ~HasChannel(channelName) \/ c \notin channels[channelName]
    THEN /\ out' = {To(c, ErrorFrame("Must join the channel first or provide a valid channel."))}
         /\ UNCHANGED <<channels, wsChannel>>
    ELSE /\ out' = {To(o, BroadcastFrame(d.message, c, channelName)) :
                        o \in {x \in Conns : IsOpen(x)}}
         /\ UNCHANGED <<channels, wsChannel>>

\* a broker that relays a message on any existing channel, member or not
CaseMessageFromAnyone(c, d) ==
    LET channelName == JsOr(d.channel, wsChannel[c]) IN
    IF ~Truthy(channelName) \/ ~IsString(channelName)
    THEN /\ out' = {To(c, ErrorFrame("Channel name is required for message."))}
         /\ UNCHANGED <<channels, wsChannel>>
    ELSE IF ~HasChannel(channelName)
    THEN /\ out' = {To(c, ErrorFrame("Must join the channel first or provide a valid channel."))}
         /\ UNCHANGED <<channels, wsChannel>>
    ELSE /\ out' = {To(o, BroadcastFrame(d.message, c, channelName)) :
                        o \in {x \in channels[channelName] : IsOpen(x)}}
         /\ UNCHANGED <<channels, wsChannel>>

\* websocket.message, case "message"
CaseMessage(c, d) ==
    LET channelName == JsOr(d.channel, wsChannel[c]) IN
    IF ~Truthy(channelName) \/ ~IsString(channelName)
    THEN /\ out' = {To(c, ErrorFrame("Channel name is required for message."))}
         /\ UNCHANGED <<channels, wsChannel>>
    ELSE IF ~HasChannel(channelName) \/ c \notin channels[channelName]
    THEN /\ out' = {To(c, ErrorFrame("Must join the channel first or provide a valid channel."))}
         /\ UNCHANGED <<channels, wsChannel>>
    ELSE /\ out' = {To(o, BroadcastFrame(d.message, c, channelName)) :
                        o \in {x \in channels[channelName] : IsOpen(x)}}
         /\ UNCHANGED <<channels, wsChannel>>

\* a broker that forwards progress to the other members only
CaseProgressSkipsSender(c, d) ==
    LET channelName == JsOr(d.channel, wsChannel[c]) IN
    /\ out' = IF Truthy(channelName) /\ IsString(channelName) /\ HasChannel(channelName)
              THEN {To(o, d) : o \in {x \in channels[channelName] \ {c} : IsOpen(x)}}
              ELSE {}
    /\ UNCHANGED <<channels, wsChannel>>

\* websocket.message, case "progress_update"
CaseProgress(c, d) ==
    LET channelName == JsOr(d.channel, wsChannel[c]) IN
    /\ out' = IF Truthy(channelName) /\ IsString(channelName) /\ HasChannel(channelName)
              THEN {To(o, d) : o \in {x \in channels[channelName] : IsOpen(x)}}
              ELSE {}
    /\ UNCHANGED <<channels, wsChannel>>

\* a broker whose parse error goes to every open connection
BrokerOnMessageErrorToAll(c, d) ==
    /\ CASE d.type = "#malformed" ->
                /\ out' = {To(o, ErrorFrame("Error processing your message")) :
                              o \in {x \in Conns : IsOpen(x)}}
                /\ UNCHANGED <<channels, wsChannel>>
         [] d.type = "join" -> CaseJoin(c, d)
         [] d.type = "message" -> CaseMessage(c, d)
         [] d.type = "progress_update" -> CaseProgress(c, d)
         [] OTHER ->
                /\ out' = {To(c, ErrorFrame("Unknown message type"))}
                /\ UNCHANGED <<channels, wsChannel>>
    /\ UNCHANGED <<cstate, activeConnections>>

\* websocket.message: JSON.parse, the switch on data.type, and the catch
BrokerOnMessage(c, d) ==
    /\ CASE d.type = "#malformed" ->
                /\ out' = {To(c, ErrorFrame("Error processing your message"))}
                /\ UNCHANGED <<channels, wsChannel>>
         [] d.type = "join" -> CaseJoin(c, d)
         [] d.type = "message" -> CaseMessage(c, d)
         [] d.type = "progress_update" -> CaseProgress(c, d)
         [] OTHER ->
                /\ out' = {To(c, ErrorFrame("Unknown message type"))}
                /\ UNCHANGED <<channels, wsChannel>>
    /\ UNCHANGED <<cstate, activeConnections>>

\* websocket.close: the global close handler
BrokerOnClose(c) ==
    LET currentClientChannel == wsChannel[c] IN
    /\ cstate' = [cstate EXCEPT ![c] = "closed"]
    /\ channels' = IF Truthy(currentClientChannel) /\ HasChannel(currentClientChannel)
                   THEN [channels EXCEPT ![currentClientChannel] = @ \ {c}]
                   ELSE [n \in DOMAIN channels |-> channels[n] \ {c}]
    /\ activeConnections' = IF activeConnections > 0 THEN activeConnections - 1
                            ELSE activeConnections
    /\ out' = {}
    /\ UNCHANGED wsChannel

\* the ws.close that handleConnection installs on the connection: it replaces
\* the socket's own close, so the connection stays open when it is called
CloseOverride(c) ==
    /\ activeConnections' = activeConnections - 1
    /\ channels' = [n \in DOMAIN channels |-> channels[n] \ {c}]
    /\ out' = UNION {{To(o, SystemFrame("left", n, NoId)) :
                         o \in {x \in channels[n] \ {c} : IsOpen(x)}} :
                     n \in {x \in DOMAIN channels : c \in channels[x]}}
    /\ UNCHANGED <<cstate, wsChannel>>

\* ===================================================================
\* Command dispatcher
\* ===================================================================
NoChannel == ""
Event(k, f, i, h) == [kind |-> k, frame |-> f, id |-> i, how |-> h]

\* ---- the pending-request table
HasPending(P, id) == \E i \in DOMAIN P : P[i].id = id
Entry(P, id) == P[CHOOSE i \in DOMAIN P : P[i].id = id]
Remove(P, id) == SelectSeq(P, LAMBDA e : e.id # id)
MinOf(S) == CHOOSE x \in S : \A y \in S : x <= y

\* ---- handleMessageResponse: the matching cascade, as (id, result, error)
NoMatch == [hit |-> FALSE, id |-> NoId, result |-> Undef, error |-> Undef, how |-> "none"]
Hit(i, r, e, h) == [hit |-> TRUE, id |-> i, result |-> r, error |-> e, how |-> h]
DocumentInfoHint == <<"d", "o", "c", "u", "m", "e", "n", "t", "_", "i", "n", "f", "o">>
GetDocumentHint == <<"g", "e", "t", "_", "d", "o", "c", "u", "m", "e", "n", "t">>

Strategy1(P, f) ==
    f.id # NoId /\ HasPending(P, f.id) /\ (f.result # Undef \/ f.error # Undef)
\* a cascade without its second strategy
Strategy2Never(P, f) == FALSE
Strategy2(P, f) ==
    f.id # NoId /\ HasPending(P, f.id) /\ (MsgResult(f) # Undef \/ MsgError(f) # Undef)
\* a third strategy that asks for no result and no error
Strategy3IdOnly(P, f) == MsgId(f) # NoId /\ HasPending(P, MsgId(f))
\* a third strategy that accepts a nested result only
Strategy3ResultOnly(P, f) ==
    MsgId(f) # NoId /\ HasPending(P, MsgId(f)) /\ MsgResult(f) # Undef
Strategy3(P, f) ==
    MsgId(f) # NoId /\ HasPending(P, MsgId(f))
    /\ (MsgResult(f) # Undef \/ MsgError(f) # Undef)
\* a fourth strategy that takes any nested object as the result
Strategy4AnyObject(P, f) ==
    /\ f.id # NoId /\ HasPending(P, f.id) /\ f.message.kind = "object"
    /\ MsgResult(f) = Undef /\ MsgError(f) = Undef
Strategy4(P, f) ==
    /\ f.id # NoId /\ HasPending(P, f.id) /\ f.message.kind = "object"
    /\ MsgResult(f) = Undef /\ MsgError(f) = Undef
    /\ \/ KeyCount(f.message) > 1
       \/ (KeyCount(f.message) = 1 /\ f.message.id \in {NoId, NullId})
\* a fuzzy match in one direction only
FuzzyIdxSubstringOnly(P, f) == {i \in DOMAIN P : Includes(P[i].id, f.id)}
FuzzyIdx(P, f) ==
    {i \in DOMAIN P : Includes(P[i].id, f.id) \/ Includes(f.id, P[i].id)}
Strategy5(P, f) ==
    /\ f.id # NoId /\ FuzzyIdx(P, f) # {}
    /\ (f.result # Undef \/ MsgResult(f) # Undef \/ f.error # Undef \/ MsgError(f) # Undef)
DocIdx(P) ==
    {i \in DOMAIN P : \/ Includes(ToLowerCase(P[i].id), DocumentInfoHint)
                      \/ Includes(ToLowerCase(P[i].id), GetDocumentHint)}
Strategy6(P, f) == JsOr(MsgResult(f), f.result) = "page" /\ DocIdx(P) # {}
CmdIdx(P, f) ==
    {i \in DOMAIN P : Includes(ToLowerCase(P[i].id), ToLowerCase(MsgCommand(f)))}
\* a last resort that takes the first matching entry, whatever its activity
MostRecentFirst(P, S) == MinOf(S)
\* the loop keeps the first entry of greatest lastActivity
MostRecent(P, S) ==
    CHOOSE i \in S : \A j \in S : \/ P[j].lastActivity < P[i].lastActivity
                                  \/ (P[j].lastActivity = P[i].lastActivity /\ i <= j)
Strategy7(P, f) == MsgCommand(f) # NoId /\ Len(P) > 0 /\ CmdIdx(P, f) # {}

HandleMessageResponse(P, f) ==
    IF Strategy1(P, f) THEN Hit(f.id, f.result, f.error, "direct")
    ELSE IF Strategy2(P, f) THEN Hit(f.id, MsgResult(f), MsgError(f), "nested_direct_id")
    ELSE IF Strategy3(P, f) THEN Hit(MsgId(f), MsgResult(f), MsgError(f), "nested_message_id")
    ELSE IF Strategy4(P, f) THEN Hit(f.id, "#message", Undef, "object_as_result")
    ELSE IF Strategy5(P, f)
         THEN Hit(P[MinOf(FuzzyIdx(P, f))].id, JsOr(f.result, MsgResult(f)),
                  JsOr(f.error, MsgError(f)), "fuzzy_id")
    ELSE IF Strategy6(P, f)
         THEN Hit(P[MinOf(DocIdx(P))].id, JsOr(MsgResult(f), f.result), Undef,
                  "heuristic_document_info")
    ELSE IF Strategy7(P, f)
         THEN Hit(P[MostRecent(P, CmdIdx(P, f))].id,
                  JsOr(JsOr(MsgResult(f), f.result), "#inferred"),
                  JsOr(MsgError(f), f.error), "command_type_match")
    ELSE NoMatch

\* ---- promises
NewCall(cmd, ch, t, vj) ==
    [command |-> cmd, channel |-> ch, timeoutMs |-> t, viaJoin |-> vj,
     state |-> "lazy", value |-> Undef, fires |-> 0, progressed |-> FALSE]
Settled(C, p, st, v) == [C EXCEPT ![p].state = st, ![p].value = v]
\* joinChannel: after the awaited send resolves, currentChannel = channelName
AfterJoin(C, p, chan) ==
    IF C[p].viaJoin /\ C[p].state = "resolved" THEN C[p].channel ELSE chan

\* a resolveRequest that forgets pendingRequests.delete(id)
ResolveRequestKeepsEntry(id, result, error) ==
    LET p == Entry(pendingRequests, id).call
        C == IF Truthy(error) THEN Settled(calls, p, "rejected", error)
             ELSE Settled(calls, p, "resolved", result)
    IN /\ calls' = C
       /\ pendingRequests' = pendingRequests
       /\ currentChannel' = AfterJoin(C, p, currentChannel)

\* resolveRequest, for an id that is in the table
ResolveRequest(id, result, error) ==
    LET p == Entry(pendingRequests, id).call
        C == IF Truthy(error) THEN Settled(calls, p, "rejected", error)
             ELSE Settled(calls, p, "resolved", result)
    IN /\ calls' = C
       /\ pendingRequests' = Remove(pendingRequests, id)
       /\ currentChannel' = AfterJoin(C, p, currentChannel)

\* handleProgressUpdate, for a frame of type progress_update
RequestIdOf(f) == IF f.id # NoId THEN f.id ELSE MsgId(f)
ProgressAccepted(P, f) ==
    RequestIdOf(f) # NoId /\ HasPending(P, RequestIdOf(f)) /\ MsgData(f)
\* a handleProgressUpdate that records the activity but leaves the timer alone
HandleProgressKeepsTimer(f) ==
    LET requestId == RequestIdOf(f) IN
    IF ~ProgressAccepted(pendingRequests, f)
    THEN UNCHANGED <<pendingRequests, calls>>
    ELSE /\ pendingRequests' =
              [i \in DOMAIN pendingRequests |->
                  IF pendingRequests[i].id = requestId
                  THEN [pendingRequests[i] EXCEPT !.lastActivity = now]
                  ELSE pendingRequests[i]]
         /\ calls' = [calls EXCEPT ![Entry(pendingRequests, requestId).call].progressed = TRUE]

\* a handleProgressUpdate that applies a frame naming no pending request to the
\* oldest pending request
HandleProgressAdoptsOldest(f) ==
    LET requestId == IF HasPending(pendingRequests, RequestIdOf(f)) \/ pendingRequests = <<>>
                     THEN RequestIdOf(f) ELSE pendingRequests[1].id
    IN
    IF ~(requestId # NoId /\ HasPending(pendingRequests, requestId) /\ MsgData(f))
    THEN UNCHANGED <<pendingRequests, calls>>
    ELSE /\ pendingRequests' =
              [i \in DOMAIN pendingRequests |->
                  IF pendingRequests[i].id = requestId
                  THEN [pendingRequests[i] EXCEPT
                           !.lastActivity = now, !.kind = "progress",
                           !.due = now + ProgressExtensionMs]
                  ELSE pendingRequests[i]]
         /\ calls' = [calls EXCEPT ![Entry(pendingRequests, requestId).call].progressed = TRUE]

HandleProgressUpdate(f) ==
    LET requestId == RequestIdOf(f) IN
    IF ~ProgressAccepted(pendingRequests, f)
    THEN UNCHANGED <<pendingRequests, calls>>
    ELSE /\ pendingRequests' =
              [i \in DOMAIN pendingRequests |->
                  IF pendingRequests[i].id = requestId
                  THEN [pendingRequests[i] EXCEPT
                           !.lastActivity = now, !.kind = "progress",
                           !.due = now + ProgressExtensionMs]
                  ELSE pendingRequests[i]]
         /\ calls' = [calls EXCEPT ![Entry(pendingRequests, requestId).call].progressed = TRUE]

\* a message handler that hands a progress frame it could not apply on to the
\* response matcher
OnMessagePassesProgress(f) ==
    /\ ws = "OPEN"
    /\ IF f.type = "#malformed"
       THEN /\ ev' = Event("message", NoFrame, NoId, "parse_error")
            /\ UNCHANGED <<pendingRequests, calls, currentChannel>>
       ELSE IF f.type = "progress_update" /\ ProgressAccepted(pendingRequests, f)
       THEN /\ HandleProgressUpdate(f)
            /\ ev' = Event("message", f, RequestIdOf(f), "progress")
            /\ UNCHANGED currentChannel
       ELSE LET m == HandleMessageResponse(pendingRequests, f) IN
            IF m.hit
            THEN /\ ev' = Event("message", f, m.id, m.how)
                 /\ ResolveRequest(m.id, m.result, m.error)
            ELSE /\ ev' = Event("message", NoFrame, NoId, "none")
                 /\ UNCHANGED <<pendingRequests, calls, currentChannel>>
    /\ UNCHANGED <<ws, handles, connTimer, staleTimers, savedServerUrl, onOpen, uuids, now>>

\* a message handler that drops the oldest pending request on an unmatched frame
OnMessageDropsOnMiss(f) ==
    /\ ws = "OPEN"
    /\ IF f.type = "#malformed"
       THEN /\ ev' = Event("message", NoFrame, NoId, "parse_error")
            /\ UNCHANGED <<pendingRequests, calls, currentChannel>>
       ELSE IF f.type = "progress_update"
       THEN /\ HandleProgressUpdate(f)
            /\ ev' = IF ProgressAccepted(pendingRequests, f)
                     THEN Event("message", f, RequestIdOf(f), "progress")
                     ELSE IF HasPending(pendingRequests, RequestIdOf(f))
                     THEN Event("message", NoFrame, NoId, "progress_ignored")
                     ELSE Event("message", NoFrame, NoId, "progress_unknown_id")
            /\ UNCHANGED currentChannel
       ELSE LET m == HandleMessageResponse(pendingRequests, f) IN
            IF m.hit
            THEN /\ ev' = Event("message", f, m.id, m.how)
                 /\ ResolveRequest(m.id, m.result, m.error)
            ELSE /\ ev' = Event("message", NoFrame, NoId, "none")
                 /\ pendingRequests' = SubSeq(pendingRequests, 2, Len(pendingRequests))
                 /\ UNCHANGED <<calls, currentChannel>>
    /\ UNCHANGED <<ws, handles, connTimer, staleTimers, savedServerUrl, onOpen, uuids, now>>

\* ws.on("message"); ev keeps the frame when it settled or extended a request
OnMessage(f) ==
    /\ ws = "OPEN"
    /\ IF f.type = "#malformed"
       THEN /\ ev' = Event("message", NoFrame, NoId, "parse_error")
            /\ UNCHANGED <<pendingRequests, calls, currentChannel>>
       ELSE IF f.type = "progress_update"
       THEN /\ HandleProgressUpdate(f)
            /\ ev' = IF ProgressAccepted(pendingRequests, f)
                     THEN Event("message", f, RequestIdOf(f), "progress")
                     ELSE IF HasPending(pendingRequests, RequestIdOf(f))
                     THEN Event("message", NoFrame, NoId, "progress_ignored")
                     ELSE Event("message", NoFrame, NoId, "progress_unknown_id")
            /\ UNCHANGED currentChannel
       ELSE LET m == HandleMessageResponse(pendingRequests, f) IN
            IF m.hit
            THEN /\ ev' = Event("message", f, m.id, m.how)
                 /\ ResolveRequest(m.id, m.result, m.error)
            ELSE /\ ev' = Event("message", NoFrame, NoId, "none")
                 /\ UNCHANGED <<pendingRequests, calls, currentChannel>>
    /\ UNCHANGED <<ws, handles, connTimer, staleTimers, savedServerUrl, onOpen, uuids, now>>

\* ---- sendCommandToFigma, with the socket open (the promise executor)
\* S carries the part of the state a send changes: calls, pending, uuids, sent.
CommandFrame(id, c, chan) ==
    Frame(IF c.command = JoinCmd THEN "join" ELSE "message", id,
          IF c.command = JoinCmd THEN c.channel ELSE chan,
          ObjMsg(id, Undef, Undef, c.command, FALSE, 1))
\* createTimeout(maxTimeoutExtensions) and pendingRequests.set(id, ...)
NewEntry(id, p, c) ==
    [id |-> id, call |-> p, kind |-> "command", rem |-> MaxTimeoutExtensions,
     ext |-> 1, due |-> now + c.timeoutMs * 1, lastActivity |-> now]
\* a promise executor without the channel check
IssueWithoutChannelCheck(S, p, chan, throws) ==
    LET c == S.calls[p]
        id == Uuid(S.uuids + 1)
    IN IF throws
       THEN [S EXCEPT !.uuids = @ + 1,
                      !.calls = Settled(S.calls, p, "rejected", "send-failed")]
       ELSE [S EXCEPT !.uuids = @ + 1,
                      !.calls = [S.calls EXCEPT ![p].state = "pending",
                                                ![p].channel = CommandFrame(id, c, chan).channel],
                      !.pending = Append(S.pending, NewEntry(id, p, c)),
                      !.sent = Append(S.sent, CommandFrame(id, c, chan))]
\* a promise executor whose catch block rejects but leaves the entry and its timer
IssueKeepsEntryOnThrow(S, p, chan, throws) ==
    LET c == S.calls[p]
        id == Uuid(S.uuids + 1)
    IN IF c.command # JoinCmd /\ ~Truthy(chan)
       THEN [S EXCEPT !.calls = Settled(S.calls, p, "rejected", "must-join")]
       ELSE IF throws
       THEN [S EXCEPT !.uuids = @ + 1,
                      !.calls = Settled(S.calls, p, "rejected", "send-failed"),
                      !.pending = Append(S.pending, NewEntry(id, p, c))]
       ELSE [S EXCEPT !.uuids = @ + 1,
                      !.calls = [S.calls EXCEPT ![p].state = "pending",
                                                ![p].channel = CommandFrame(id, c, chan).channel],
                      !.pending = Append(S.pending, NewEntry(id, p, c)),
                      !.sent = Append(S.sent, CommandFrame(id, c, chan))]
Issue(S, p, chan, throws) ==
    LET c == S.calls[p]
        id == Uuid(S.uuids + 1)
    IN IF c.command # JoinCmd /\ ~Truthy(chan)
       THEN [S EXCEPT !.calls = Settled(S.calls, p, "rejected", "must-join")]
       ELSE IF throws
       THEN [S EXCEPT !.uuids = @ + 1,
                      !.calls = Settled(S.calls, p, "rejected", "send-failed")]
       ELSE [S EXCEPT !.uuids = @ + 1,
                      !.calls = [S.calls EXCEPT ![p].state = "pending",
                                                ![p].channel = CommandFrame(id, c, chan).channel],
                      !.pending = Append(S.pending, NewEntry(id, p, c)),
                      !.sent = Append(S.sent, CommandFrame(id, c, chan))]
SendState == [calls |-> calls, pending |-> pendingRequests, uuids |-> uuids, sent |-> toBroker]
Apply(S) ==
    /\ calls' = S.calls
    /\ pendingRequests' = S.pending
    /\ uuids' = S.uuids
    /\ toBroker' = S.sent

\* a connectToFigma that opens a new handle whatever the state of the old one
ConnectAlways ==
    /\ ws' = "CONNECTING"
    /\ handles' = handles + 1
    /\ connTimer' = TRUE
    /\ staleTimers' = IF connTimer THEN staleTimers + 1 ELSE staleTimers
\* ---- connectToFigma
Connect ==
    IF ws \in {"OPEN", "CONNECTING"}
    THEN UNCHANGED <<ws, handles, connTimer, staleTimers>>
    ELSE /\ ws' = "CONNECTING"
         /\ handles' = handles + 1
         /\ connTimer' = TRUE
         \* removeAllListeners() drops the old handle's open/close handlers, the
         \* onOpen listeners of lazy sends, and with them the only clearTimeout
         \* of the old handle's connectionTimeout
         /\ staleTimers' = IF connTimer THEN staleTimers + 1 ELSE staleTimers
\* the onOpen listeners left after Connect
Listeners == IF ws \in {"OPEN", "CONNECTING"} THEN onOpen ELSE <<>>
CanConnect == ws \in {"OPEN", "CONNECTING"} \/ handles < MaxHandles

SetConnectionConfig ==
    /\ savedServerUrl = ""
    /\ savedServerUrl' = "localhost"
    /\ ev' = Event("config", NoFrame, NoId, "")
    /\ UNCHANGED <<ws, handles, connTimer, staleTimers, currentChannel, pendingRequests,
                   onOpen, uuids, now, calls, toBroker>>

ConnectToFigma ==
    /\ ws \notin {"OPEN", "CONNECTING"} /\ CanConnect
    /\ Connect
    /\ onOpen' = Listeners
    /\ ev' = Event("connect", NoFrame, NoId, "")
    /\ UNCHANGED <<savedServerUrl, currentChannel, pendingRequests, uuids, now, calls, toBroker>>

\* sendCommandToFigma(command, params, timeoutMs); vj: called by joinChannel
SendCommandToFigma(cmd, ch, t, vj, throws) ==
    LET p == Len(calls) + 1
        C == Append(calls, NewCall(cmd, ch, t, vj))
    IN
    /\ Len(calls) < MaxCalls
    /\ ev' = Event("send", NoFrame, NoId, "")
    /\ IF ws # "OPEN"
       THEN IF savedServerUrl = ""
            THEN /\ ~throws
                 /\ calls' = Settled(C, p, "rejected", "not-configured")
                 /\ UNCHANGED <<ws, handles, connTimer, staleTimers, onOpen,
                                pendingRequests, uuids, toBroker>>
            ELSE /\ ~throws /\ CanConnect
                 /\ Connect
                 /\ calls' = C
                 /\ onOpen' = Append(Listeners, p)
                 /\ UNCHANGED <<pendingRequests, uuids, toBroker>>
       ELSE /\ Apply(Issue([SendState EXCEPT !.calls = C], p, currentChannel, throws))
            /\ (throws => (cmd = JoinCmd \/ Truthy(currentChannel)))
            /\ UNCHANGED <<ws, handles, connTimer, staleTimers, onOpen>>
    /\ UNCHANGED <<savedServerUrl, currentChannel, now>>

\* joinChannel(channelName): throws unless the socket is open
JoinChannel(ch, throws) ==
    /\ ws = "OPEN"
    /\ SendCommandToFigma(JoinCmd, ch, DefaultTimeoutMs, TRUE, throws)

\* a timeout callback that never extends
CommandTimeoutNoExtension(e) ==
    /\ pendingRequests' = Remove(pendingRequests, e.id)
    /\ calls' = Settled([calls EXCEPT ![e.call].fires = @ + 1], e.call,
                        "rejected", "timeout")

\* ---- timers of pending requests
\* a timeout callback whose final expiry clears the whole table
CommandTimeoutClearsTable(e) ==
    IF e.rem > 0
    THEN /\ pendingRequests' =
              [i \in DOMAIN pendingRequests |->
                  IF pendingRequests[i].id = e.id
                  THEN [e EXCEPT !.ext = e.ext + 1, !.rem = e.rem - 1,
                                 !.due = now + calls[e.call].timeoutMs * (e.ext + 1)]
                  ELSE pendingRequests[i]]
         /\ calls' = [calls EXCEPT ![e.call].fires = @ + 1]
    ELSE /\ pendingRequests' = <<>>
         /\ calls' = Settled([calls EXCEPT ![e.call].fires = @ + 1], e.call,
                             "rejected", "timeout")
\* the callback of createTimeout(remainingExtensions)
CommandTimeout(e) ==
    IF e.rem > 0
    THEN /\ pendingRequests' =
              [i \in DOMAIN pendingRequests |->
                  IF pendingRequests[i].id = e.id
                  THEN [e EXCEPT !.ext = e.ext + 1, !.rem = e.rem - 1,
                                 !.due = now + calls[e.call].timeoutMs * (e.ext + 1)]
                  ELSE pendingRequests[i]]
         /\ calls' = [calls EXCEPT ![e.call].fires = @ + 1]
    ELSE /\ pendingRequests' = Remove(pendingRequests, e.id)
         /\ calls' = Settled([calls EXCEPT ![e.call].fires = @ + 1], e.call,
                             "rejected", "timeout")
\* the callback of the timer set by handleProgressUpdate
ProgressTimeout(e) ==
    /\ pendingRequests' = Remove(pendingRequests, e.id)
    /\ calls' = Settled([calls EXCEPT ![e.call].fires = @ + 1], e.call,
                        "rejected", "timeout-after-progress")
TimerFire(i) ==
    LET e == pendingRequests[i] IN
    /\ e.due <= now
    /\ IF e.kind = "command" THEN CommandTimeout(e) ELSE ProgressTimeout(e)
    /\ ev' = Event("timer", NoFrame, e.id, e.kind)
    /\ UNCHANGED <<ws, handles, connTimer, staleTimers, savedServerUrl, currentChannel,
                   onOpen, uuids, now, toBroker>>

\* time passes while a request is pending; a timer that is due fires first
Tick ==
    /\ now < MaxTime
    /\ pendingRequests # <<>>
    /\ \A i \in DOMAIN pendingRequests : pendingRequests[i].due > now
    /\ now' = now + 1
    /\ ev' = Event("tick", NoFrame, NoId, "")
    /\ UNCHANGED <<ws, handles, connTimer, staleTimers, savedServerUrl, currentChannel,
                   pendingRequests, onOpen, uuids, calls, toBroker>>

\* ---- events of the handle
RECURSIVE ReissueAll(_, _, _)
ReissueAll(S, L, throws) ==
    IF L = <<>> THEN S
    ELSE ReissueAll(Issue(S, Head(L), NoChannel, throws), Tail(L), throws)

\* an open handler that keeps the channel of the previous connection
OnOpenKeepsChannel(throws) ==
    /\ ws = "CONNECTING"
    /\ ws' = "OPEN"
    /\ connTimer' = FALSE
    /\ currentChannel' = currentChannel
    /\ (throws => \E i \in DOMAIN onOpen : calls[onOpen[i]].command = JoinCmd)
    /\ Apply(ReissueAll(SendState, onOpen, throws))
    /\ onOpen' = <<>>
    /\ ev' = Event("open", NoFrame, NoId, "")
    /\ UNCHANGED <<handles, staleTimers, savedServerUrl, now>>

\* ws.on("open"), then the onOpen listeners of the lazy sends, in order
OnOpen(throws) ==
    /\ ws = "CONNECTING"
    /\ ws' = "OPEN"
    /\ connTimer' = FALSE
    /\ currentChannel' = NoChannel
    /\ (throws => \E i \in DOMAIN onOpen : calls[onOpen[i]].command = JoinCmd)
    /\ Apply(ReissueAll(SendState, onOpen, throws))
    /\ onOpen' = <<>>
    /\ ev' = Event("open", NoFrame, NoId, "")
    /\ UNCHANGED <<handles, staleTimers, savedServerUrl, now>>

\* a close handler that rejects the oldest pending request only
RejectOldest(C, P) ==
    [p \in DOMAIN C |->
        IF P # <<>> /\ P[1].call = p
        THEN [C[p] EXCEPT !.state = "rejected", !.value = "connection-lost"]
        ELSE C[p]]

\* ws.on("close")
RejectAll(C, P) ==
    [p \in DOMAIN C |->
        IF \E i \in DOMAIN P : P[i].call = p
        THEN [C[p] EXCEPT !.state = "rejected", !.value = "connection-lost"]
        ELSE C[p]]
OnClose ==
    /\ ws' = "CLOSED"
    /\ connTimer' = FALSE
    /\ calls' = RejectAll(calls, pendingRequests)
    /\ pendingRequests' = <<>>
    /\ toBroker' = <<>>
    /\ UNCHANGED <<handles, staleTimers, savedServerUrl, currentChannel, onOpen, uuids, now>>

\* the connection is lost, or the attempt fails
TransportClose ==
    /\ ws \in {"CONNECTING", "OPEN"}
    /\ OnClose
    /\ ev' = Event("close", NoFrame, NoId, "")

\* the connectionTimeout callback of the current handle, or of one torn down:
\* both read the module's `ws`
ConnectionTimeout(stale) ==
    /\ IF stale THEN staleTimers > 0 ELSE connTimer
    /\ IF ws = "CONNECTING"
       THEN /\ OnClose
            /\ staleTimers' = IF stale THEN staleTimers - 1 ELSE staleTimers
            /\ UNCHANGED <<handles, savedServerUrl, currentChannel, onOpen, uuids, now>>
       ELSE /\ connTimer' = IF stale THEN connTimer ELSE FALSE
            /\ staleTimers' = IF stale THEN staleTimers - 1 ELSE staleTimers
            /\ UNCHANGED <<ws, handles, savedServerUrl, currentChannel, pendingRequests,
                           onOpen, uuids, now, calls, toBroker>>
    /\ ev' = Event("connect-timeout", NoFrame, NoId, "")

\* ReconnectingWebSocket retries on its own after a close
TransportRetry ==
    /\ ws = "CLOSED"
    /\ ws' = "CONNECTING"
    /\ ev' = Event("retry", NoFrame, NoId, "")
    /\ UNCHANGED <<handles, connTimer, staleTimers, savedServerUrl, currentChannel,
                   pendingRequests, onOpen, uuids, now, calls, toBroker>>

\* ---- the reconnect schedule of the handle (utils/reconnecting-websocket)
\* the reconnectInterval values a caller may configure, in seconds
Intervals == {1, 2, 3, 4, 30}
Schedule(i) == [interval |-> i, delays |-> <<>>]
\* a schedule that keeps doubling and is never bounded
NextDelayUnbounded(i, k) == i * 2 ^ (k - 1)
\* the delay before reconnect attempt k: exponential from the configured
\* interval, bounded by maxDelay, for the first maxReconnectAttempts attempts,
\* then the fixed persistent interval
NextDelay(i, k) ==
    IF k <= MaxReconnectAttempts
    THEN IF i * 2 ^ (k - 1) < MaxDelayS THEN i * 2 ^ (k - 1) ELSE MaxDelayS
    ELSE PersistentRetryDelayS

\* ---- frames a client other than the dispatcher may send
ClientPayloads ==
    {ObjMsg(u, "r42", Undef, NoId, FALSE, 0) : u \in Uuids}
    \cup {ObjMsg(Uuid(1), Undef, "boom", NoId, FALSE, 0),
          ObjMsg(NoId, Undef, Undef, GetCmd, FALSE, 1)}
ClientFrames ==
    {Frame("join", NoId, ch, NoMsg) : ch \in ChannelNames \cup {"", NonString}}
    \cup {Frame("message", NoId, ch, m) : ch \in ChannelNames \cup {""}, m \in ClientPayloads}
    \cup {Frame("progress_update", u, ch, ObjMsg(NoId, Undef, Undef, NoId, TRUE, 0)) :
             u \in {Uuid(1)}, ch \in ChannelNames \cup {""}}
    \cup {Frame("#malformed", NoId, "", NoMsg), Frame("ping", NoId, "", NoMsg)}

\* the frame of `o` addressed to the dispatcher's connection, queued for it
Delivered(o, q) ==
    IF \E x \in o : x.to = dconn
    THEN Append(q, (CHOOSE x \in o : x.to = dconn).frame)
    ELSE q

\* connection ids are handed out in order of arrival
FreshConn(c) == cstate[c] = "idle" /\ \A x \in Conns : x < c => cstate[x] # "idle"

ClientOpen(c) ==
    /\ FreshConn(c)
    /\ HandleConnection(c)
    /\ UNCHANGED wireVars
    /\ UNCHANGED dispVars

ClientSend(c, d) ==
    /\ IsOpen(c) /\ c # dconn
    /\ Len(toDisp) < MaxQueue
    /\ BrokerOnMessage(c, d)
    /\ toDisp' = Delivered(out', toDisp)
    /\ UNCHANGED <<dconn, toBroker, retry>>
    /\ UNCHANGED dispVars

ClientClose(c) ==
    /\ IsOpen(c) /\ c # dconn
    /\ BrokerOnClose(c)
    /\ UNCHANGED wireVars
    /\ UNCHANGED dispVars

\* ---- frames a server may send to the dispatcher
TopIds == Uuids \cup {<<"b">>, <<"x">>}
Response(top, nid, tres, terr, nres, nerr) ==
    [Frame("", top, "", ObjMsg(nid, nres, nerr, NoId, FALSE, 0)) EXCEPT
        !.result = tres, !.error = terr]
Carried ==
    {<<Undef, Undef, "r42", Undef>>, <<Undef, Undef, Undef, "boom">>,
     <<Undef, Undef, "r42", "boom">>, <<Undef, Undef, "r42", "null">>,
     <<"r7", Undef, "r42", Undef>>, <<Undef, "boom", Undef, Undef>>,
     <<"r7", Undef, Undef, "boom">>, <<Undef, Undef, Undef, Undef>>}
ResponseFrames ==
    {Response(top, nid, x[1], x[2], x[3], x[4]) :
        top \in TopIds \cup {NoId}, nid \in Uuids \cup {NoId}, x \in Carried}
ProgressFrames ==
    {Frame("progress_update", top, "c1", ObjMsg(nid, r, Undef, NoId, d, 0)) :
        top \in {NoId, Uuid(1)}, nid \in {NoId, Uuid(2)},
        r \in {Undef, "r42"}, d \in BOOLEAN}
InFrames ==
    ResponseFrames \cup ProgressFrames
    \cup {SystemFrame("joined", "c1", u) : u \in Uuids}
    \cup {Frame("#malformed", NoId, "", NoMsg)}

BrokerInit ==
    /\ cstate = [c \in Conns |-> "idle"]
    /\ channels = [n \in {} |-> {}]
    /\ wsChannel = [c \in Conns |-> ""]
    /\ activeConnections = 0
    /\ out = {}

DispInit ==
    /\ ws = "null"
    /\ handles = 0
    /\ connTimer = FALSE
    /\ staleTimers = 0
    /\ savedServerUrl = ""
    /\ currentChannel = NoChannel
    /\ pendingRequests = <<>>
    /\ onOpen = <<>>
    /\ uuids = 0
    /\ now = 0
    /\ calls = <<>>
    /\ ev = Event("init", NoFrame, NoId, "")

Init ==
    /\ BrokerInit
    /\ DispInit
    /\ dconn = 0
    /\ toBroker = <<>>
    /\ toDisp = <<>>
    /\ retry = Schedule(0)

NextBroker ==
    \/ \E c \in Conns : ClientOpen(c)
    \/ \E c \in Conns, d \in ClientFrames : ClientSend(c, d)
    \/ \E c \in Conns : ClientClose(c)

SpecBroker == Init /\ [][NextBroker]_vars

\* the broker when the installed ws.close is called on open connections
ClientCloseOverride(c) ==
    /\ IsOpen(c) /\ c # dconn
    /\ activeConnections > 0 - MaxConns
    /\ CloseOverride(c)
    /\ UNCHANGED wireVars
    /\ UNCHANGED dispVars
NextStats ==
    \/ \E c \in Conns : ClientOpen(c)
    \/ \E c \in Conns, d \in ClientFrames : ClientSend(c, d)
    \/ \E c \in Conns : ClientClose(c)
    \/ \E c \in Conns : ClientCloseOverride(c)
SpecStats == Init /\ [][NextStats]_vars

\* ---- the dispatcher against an arbitrary server
Idle == UNCHANGED <<cstate, channels, wsChannel, activeConnections, out, dconn, toDisp>>
Alone == Idle /\ UNCHANGED retry

DSetConnectionConfig == SetConnectionConfig /\ Alone
DConnectToFigma == ConnectToFigma /\ Alone
\* T: the timeouts callers pass; X: whether ws.send may throw
DSend(T, X) == \E t \in T, throws \in X :
                   SendCommandToFigma(GetCmd, NoChannel, t, FALSE, throws) /\ Alone
DJoinChannel(X) == \E ch \in ChannelNames, throws \in X : JoinChannel(ch, throws) /\ Alone
DOpen == \E throws \in BOOLEAN : OnOpen(throws) /\ Alone
DClose == TransportClose /\ Alone
DConnectionTimeout == \E stale \in BOOLEAN : ConnectionTimeout(stale) /\ Alone
DRetry == TransportRetry /\ Alone
DTimerFire == \E i \in DOMAIN pendingRequests : TimerFire(i) /\ Alone
DTick == Tick /\ Alone
DReceive(F) == \E f \in F : OnMessage(f) /\ UNCHANGED toBroker /\ Alone

\* response matching: any frame, no timers
NextMatch ==
    \/ DConnectToFigma
    \/ DOpen
    \/ DJoinChannel({FALSE})
    \/ DSend({DefaultTimeoutMs}, {FALSE})
    \/ DReceive(InFrames)
SpecMatch == Init /\ [][NextMatch]_vars

\* timeouts and progress: time passes, the frames are those naming a request
TimerFrames ==
    {Frame("progress_update", u, "c1", ObjMsg(NoId, Undef, Undef, NoId, d, 0)) :
        u \in Uuids, d \in BOOLEAN}
    \cup {Response(NoId, u, Undef, Undef, "r42", Undef) : u \in Uuids}
NextTimer ==
    \/ DConnectToFigma
    \/ DOpen
    \/ DJoinChannel({FALSE})
    \/ DSend({DefaultTimeoutMs}, {FALSE})
    \/ DReceive(TimerFrames)
    \/ DTimerFire
    \/ DTick
    \/ DClose
SpecTimer == Init /\ [][NextTimer]_vars

\* settlement: frames, timers, closes and transmissions that throw
NextSettle ==
    \/ DConnectToFigma
    \/ DOpen
    \/ DJoinChannel(BOOLEAN)
    \/ DSend({DefaultTimeoutMs}, BOOLEAN)
    \/ DReceive(TimerFrames)
    \/ DTimerFire
    \/ DTick
    \/ DClose
SpecSettle == Init /\ [][NextSettle]_vars

\* the later strategies: frames whose nested object is itself the result,
\* frames with a mangled top-level id, frames that declare a command name
HeurFrames ==
    {Frame("", top, "", ObjMsg(nid, Undef, Undef, NoId, FALSE, x)) :
        top \in Uuids, nid \in {NoId, NullId, Uuid(2)}, x \in {0, 1}}
    \cup {Response(top, NoId, y[1], y[2], y[3], y[4]) :
            top \in {<<"b">>, <<"x">>, Uuid(2) \o <<"x">>},
            y \in {<<Undef, Undef, "r42", Undef>>, <<Undef, "boom", Undef, Undef>>,
                   <<"r7", Undef, "r42", Undef>>, <<Undef, Undef, Undef, Undef>>}}
    \cup {Frame("", NoId, "", ObjMsg(NoId, y[1], y[2], cmd, FALSE, 0)) :
            y \in {<<Undef, Undef>>, <<"r42", Undef>>, <<Undef, "boom">>},
            cmd \in {<<"A", "B">>, <<"B", "A">>, GetCmd}}
\* no timer expiry: time stands still while a timer is due
NextHeur ==
    \/ DConnectToFigma
    \/ DOpen
    \/ DJoinChannel({FALSE})
    \/ DSend({DefaultTimeoutMs}, {FALSE})
    \/ DReceive(HeurFrames)
    \/ DTick
SpecHeur == Init /\ [][NextHeur]_vars

\* connection lifecycle and lazy connect: no frames, no request timers
NextConn ==
    \/ DSetConnectionConfig
    \/ DConnectToFigma
    \/ DSend({DefaultTimeoutMs}, BOOLEAN)
    \/ DJoinChannel(BOOLEAN)
    \/ DOpen
    \/ DClose
    \/ DConnectionTimeout
    \/ DRetry
SpecConn == Init /\ [][NextConn]_vars

\* reconnection: the handle's own retries after a loss, no requests
BackoffConfig ==
    \E i \in Intervals : SetConnectionConfig /\ retry' = Schedule(i) /\ Idle
BackoffConnect ==
    /\ savedServerUrl # ""
    /\ ConnectToFigma
    /\ retry' = Schedule(retry.interval)
    /\ Idle
BackoffOpen == OnOpen(FALSE) /\ retry' = Schedule(retry.interval) /\ Idle
\* the connection is lost or an attempt fails: the next attempt is scheduled
BackoffClose ==
    /\ Len(retry.delays) < MaxRetries
    /\ TransportClose
    /\ retry' = [retry EXCEPT
                    !.delays = Append(@, NextDelay(retry.interval, Len(@) + 1))]
    /\ Idle
\* a handle that gives up after the quick attempts
BackoffRetryGivesUp ==
    /\ retry.delays # <<>> /\ Len(retry.delays) <= MaxReconnectAttempts
    /\ TransportRetry /\ UNCHANGED retry /\ Idle
\* the scheduled delay has passed: the handle tries again
BackoffRetry == retry.delays # <<>> /\ TransportRetry /\ UNCHANGED retry /\ Idle
NextBackoff ==
    \/ BackoffConfig
    \/ BackoffConnect
    \/ BackoffOpen
    \/ BackoffClose
    \/ BackoffRetry
SpecBackoff == Init /\ [][NextBackoff]_vars
\* a reconnect that is scheduled is attempted once its delay has passed
FairBackoff == SpecBackoff /\ WF_vars(BackoffRetry)

\* ===================================================================
\* The dispatcher connected to the broker, with other clients (targets)
\* ===================================================================
\* what a target sends: joins, answers and commands on its channel, progress
TargetFrames ==
    {Frame("join", NoId, ch, NoMsg) : ch \in ChannelNames}
    \cup {Frame("message", NoId, "", m) : m \in ClientPayloads}
    \cup {Frame("progress_update", Uuid(1), "", ObjMsg(NoId, Undef, Undef, NoId, TRUE, 0))}

\* the handle opens: the broker's open handler and the dispatcher's
RelayOpen ==
    \E c \in Conns :
        /\ FreshConn(c)
        /\ OnOpen(FALSE)
        /\ HandleConnection(c)
        /\ dconn' = c
        /\ toDisp' = Delivered(out', <<>>)
        /\ UNCHANGED retry

\* the dispatcher's connection is lost: both close handlers run
RelayClose ==
    /\ ws = "OPEN" /\ dconn # 0
    /\ TransportClose
    /\ BrokerOnClose(dconn)
    /\ dconn' = 0
    /\ toDisp' = <<>>
    /\ UNCHANGED retry

\* the broker handles the next frame the dispatcher transmitted
BrokerRecv ==
    /\ dconn # 0 /\ toBroker # <<>>
    /\ Len(toDisp) < MaxQueue
    /\ BrokerOnMessage(dconn, Head(toBroker))
    /\ toBroker' = Tail(toBroker)
    /\ toDisp' = Delivered(out', toDisp)
    /\ UNCHANGED <<dconn, retry>>
    /\ UNCHANGED dispVars

\* the dispatcher handles the next frame the broker sent it
Receive ==
    /\ toDisp # <<>>
    /\ OnMessage(Head(toDisp))
    /\ toDisp' = Tail(toDisp)
    /\ UNCHANGED <<dconn, toBroker, retry>>
    /\ UNCHANGED brokerVars

Next ==
    \/ DConnectToFigma
    \/ RelayOpen
    \/ DJoinChannel({FALSE})
    \/ DSend({DefaultTimeoutMs}, {FALSE})
    \/ BrokerRecv
    \/ Receive
    \/ RelayClose
    \/ \E c \in Conns : ClientOpen(c)
    \/ \E c \in Conns, d \in TargetFrames : ClientSend(c, d)
    \/ \E c \in Conns : ClientClose(c)
Spec == Init /\ [][Next]_vars

\* ===================================================================
\* Properties
\* ===================================================================
\* the call behind the pending request `id`
CallOf(id) == Entry(pendingRequests, id).call
\* f is the broker's confirmation of a join of the dispatcher that is pending
JoinConfirmation(f) ==
    /\ f.type = "system" /\ f.id # NoId
    /\ HasPending(pendingRequests, f.id)
    /\ calls[CallOf(f.id)].viaJoin

\* C1: when the dispatcher handles the broker's system confirmation of its
\* pending join (the confirmation echoes the join frame's id), the join request
\* is resolved and removed, and the current channel is the channel joined.
C1_ConfirmationResolvesJoin ==
    [][(toDisp # <<>> /\ JoinConfirmation(Head(toDisp)) /\ Receive)
        => LET f == Head(toDisp) IN
           /\ calls'[CallOf(f.id)].state = "resolved"
           /\ ~HasPending(pendingRequests', f.id)
           /\ currentChannel' = calls[CallOf(f.id)].channel]_vars

\* the channels whose member set holds c
ChannelsOf(c) == {n \in DOMAIN channels : c \in channels[n]}
JoinedOnlyTo(c, n) == ChannelsOf(c) = {n}

\* C2: channel isolation. A message frame the broker relays on channel A is
\* never sent to a connection that is joined only to another channel B.
C2_ChannelIsolation ==
    \A x \in out :
        x.frame.type = "broadcast" =>
            ~\E n \in ChannelNames : n # x.frame.channel /\ JoinedOnlyTo(x.to, n)
\* a message was relayed on one channel while an open connection was joined
\* only to another
C2_Witness ==
    \E x \in out, c \in Conns, n \in ChannelNames :
        /\ x.frame.type = "broadcast" /\ x.frame.channel # n
        /\ IsOpen(c) /\ JoinedOnlyTo(c, n)

\* C3: a connection is a member of at most one channel's member set; joining B
\* after A leaves it a member of B only.
C3_AtMostOneChannel == \A c \in Conns : Cardinality(ChannelsOf(c)) <= 1

\* what can still settle the promise of call p: the armed timer of its pending
\* request (and a response, or the close handler), or its onOpen listener on
\* the current handle
HasTimer(p) == \E i \in DOMAIN pendingRequests : pendingRequests[i].call = p
HasListener(p) == \E i \in DOMAIN onOpen : onOpen[i] = p
IsSettled(p) == calls[p].state \in {"resolved", "rejected"}

\* C4: every call of sendCommandToFigma returns a promise that is eventually
\* settled. In a finite run: a promise not yet settled always has a timer or a
\* listener left that will settle it.
C4_EverySendSettles ==
    \A p \in DOMAIN calls : IsSettled(p) \/ HasTimer(p) \/ HasListener(p)

\* a response frame: parsed, and not of progress type
IsResponse(f) == f.type \notin {"progress_update", "#malformed"}
\* {id: X, message: {result: r}}: the result is carried by the nested message
\* only, and the frame carries no error
RoundTripFrames ==
    {f \in InFrames : /\ IsResponse(f) /\ f.id # NoId
                      /\ f.result = Undef /\ f.error = Undef
                      /\ MsgResult(f) # Undef /\ MsgError(f) = Undef}

\* C5: round trip. Handling a frame whose top-level id is the id X of a pending
\* request and whose nested message carries a result r and no error resolves
\* the caller's promise with r and removes X from the pending table.
C5_RoundTrip ==
    [][\A f \in RoundTripFrames :
          (HasPending(pendingRequests, f.id) /\ DReceive({f}))
          => /\ calls'[CallOf(f.id)].state = "resolved"
             /\ calls'[CallOf(f.id)].value = MsgResult(f)
             /\ ~HasPending(pendingRequests', f.id)]_vars
\* such a frame was handled and resolved its request by Strategy 2
C5_Witness ==
    /\ ev.kind = "message" /\ ev.frame \in RoundTripFrames
    /\ ev.id = ev.frame.id /\ ev.how = "nested_direct_id"
    /\ ~HasPending(pendingRequests, ev.id)
    /\ \E p \in DOMAIN calls :
          calls[p].state = "resolved" /\ calls[p].value = MsgResult(ev.frame)

\* no top-level id, a nested id, and a nested result or error
FallbackFrames ==
    {f \in InFrames : /\ IsResponse(f) /\ f.id = NoId /\ MsgId(f) # NoId
                      /\ (MsgResult(f) # Undef \/ MsgError(f) # Undef)}

\* C6: fallback matching. Handling a frame with no top-level id whose nested
\* message.id is the id of a pending request and whose nested message carries a
\* result or an error settles exactly that request, rejecting with the error if
\* there is one and resolving with the result otherwise, and removes it.
C6_FallbackMatching ==
    [][\A f \in FallbackFrames :
          (HasPending(pendingRequests, MsgId(f)) /\ DReceive({f}))
          => LET p == CallOf(MsgId(f)) IN
             /\ calls'[p].state = IF Truthy(MsgError(f)) THEN "rejected" ELSE "resolved"
             /\ calls'[p].value = IF Truthy(MsgError(f)) THEN MsgError(f) ELSE MsgResult(f)
             /\ pendingRequests' = Remove(pendingRequests, MsgId(f))
             /\ \A q \in DOMAIN calls : q # p => calls'[q] = calls[q]]_vars
\* such a frame rejected its request by Strategy 3 while another stayed pending
C6_Witness ==
    /\ ev.kind = "message" /\ ev.frame \in FallbackFrames
    /\ ev.id = MsgId(ev.frame) /\ ev.how = "nested_message_id"
    /\ ~HasPending(pendingRequests, ev.id)
    /\ pendingRequests # <<>>
    /\ \E p \in DOMAIN calls :
          calls[p].state = "rejected" /\ calls[p].value = MsgError(ev.frame)

\* an answer of a target: a payload carrying the id of a request pending at the
\* dispatcher whose frame the broker has relayed, a result, and no error
IsAnswer(m) ==
    /\ m.kind = "object" /\ m.id # NoId /\ HasPending(pendingRequests, m.id)
    /\ \A i \in DOMAIN toBroker : toBroker[i].id # m.id
    /\ m.result # Undef /\ m.error = Undef

\* C7: end-to-end relay. (1) The broker relays a command frame of the
\* dispatcher to every open member of the frame's channel, the current channel
\* C of the dispatcher when it sent the command. (2) A target's answer on C,
\* carrying the command's id and a result, is relayed by the broker to the
\* dispatcher. (3) Handling that broadcast resolves the pending request the
\* answer names with the answer's result and removes it.
C7_EndToEndRelay ==
    [][/\ (BrokerRecv /\ Head(toBroker).type = "message")
          => LET d == Head(toBroker) IN
             \A t \in Members(d.channel) :
                 IsOpen(t) => To(t, BroadcastFrame(d.message, dconn, d.channel)) \in out'
       /\ \A t \in Conns, d \in TargetFrames :
             (/\ ClientSend(t, d)
              /\ d.type = "message" /\ IsAnswer(d.message)
              /\ wsChannel[t] = calls[CallOf(d.message.id)].channel
              /\ t \in Members(wsChannel[t]))
             => toDisp' = Append(toDisp, BroadcastFrame(d.message, t, wsChannel[t]))
       /\ (Receive /\ Head(toDisp).type = "broadcast" /\ IsAnswer(Head(toDisp).message))
          => LET m == Head(toDisp).message IN
             /\ calls'[CallOf(m.id)].state = "resolved"
             /\ calls'[CallOf(m.id)].value = m.result
             /\ ~HasPending(pendingRequests', m.id)]_vars
\* a command sent after the join completed was answered by a target through the
\* broker, and the answer resolved it
C7_Witness ==
    /\ ev.kind = "message" /\ ev.how = "nested_message_id"
    /\ ev.frame.type = "broadcast" /\ ev.frame.sender # dconn
    /\ \E p \in DOMAIN calls :
          /\ calls[p].command = GetCmd /\ calls[p].state = "resolved"
          /\ calls[p].value = MsgResult(ev.frame)
          /\ calls[p].channel = ev.frame.channel
          /\ ev.id = Uuid(p)

\* the calls whose requests are in the pending table
PendingCalls == {pendingRequests[i].call : i \in DOMAIN pendingRequests}

\* C8: disconnect semantics. When the dispatcher's connection closes, every
\* pending request is rejected with a connection-lost error and no other
\* promise is touched; immediately afterwards the pending table is empty and
\* no request timer is left to fire.
C8_DisconnectRejectsAll ==
    /\ [][DClose =>
            /\ pendingRequests' = <<>>
            /\ \A p \in DOMAIN calls :
                  IF p \in PendingCalls
                  THEN /\ calls'[p].state = "rejected"
                       /\ calls'[p].value = "connection-lost"
                  ELSE calls'[p] = calls[p]]_vars
    /\ [](ev.kind = "close" => pendingRequests = <<>> /\ ~ENABLED DTimerFire)
\* one close rejected two pending requests, one of them with a progress timer
C8_Witness ==
    /\ ev.kind = "close" /\ handles = 1 /\ pendingRequests = <<>>
    /\ Len(calls) = 2
    /\ \A p \in DOMAIN calls :
          calls[p].state = "rejected" /\ calls[p].value = "connection-lost"
    /\ \E p \in DOMAIN calls : calls[p].progressed

\* C9: timeout extension. A timer expiry of a request that received no
\* progress rejects it only if it is the fourth (all MaxTimeoutExtensions
\* extensions used): the earlier expiries leave it pending with a new timer;
\* the fourth rejects it with a timeout error and removes its entry.
C9_TimeoutExtension ==
    /\ [][\A i \in DOMAIN pendingRequests :
            (TimerFire(i) /\ ~calls[pendingRequests[i].call].progressed)
            => LET e == pendingRequests[i] IN
               IF calls[e.call].fires < MaxTimeoutExtensions
               THEN /\ HasPending(pendingRequests', e.id)
                    /\ calls'[e.call].state = "pending"
                    /\ Entry(pendingRequests', e.id).due > now
               ELSE /\ ~HasPending(pendingRequests', e.id)
                    /\ calls'[e.call].state = "rejected"
                    /\ calls'[e.call].value = "timeout"]_vars
    /\ [](\A p \in DOMAIN calls :
            calls[p].value = "timeout" => calls[p].fires = MaxTimeoutExtensions + 1)
\* a request timed out at its fourth expiry
C9_Witness ==
    /\ ev.kind = "timer"
    /\ \E p \in DOMAIN calls :
          /\ ev.id = Uuid(p) /\ calls[p].state = "rejected"
          /\ calls[p].value = "timeout" /\ calls[p].fires = MaxTimeoutExtensions + 1
          /\ now = (1 + 2 + 3 + 4) * calls[p].timeoutMs

\* a progress frame the dispatcher accepts for the pending request it names
AcceptedProgress ==
    {f \in TimerFrames : f.type = "progress_update" /\ MsgData(f)}
\* a terminal frame: the result of the request its nested id names
TerminalFrames == {f \in TimerFrames : IsResponse(f)}

PendingIds(P) == [i \in DOMAIN P |-> P[i].id]
\* the promise of call p as its caller sees it
Promise(C, p) == <<C[p].state, C[p].value>>

C12_UnknownProgressIsNoOp ==
    [][\A f \in TimerFrames :
          (/\ f.type = "progress_update"
           /\ ~HasPending(pendingRequests, RequestIdOf(f))
           /\ DReceive({f}))
          => /\ pendingRequests' = pendingRequests
             /\ calls' = calls
             /\ ev'.how = "progress_unknown_id"]_vars
\* a progress frame naming no pending request was handled after time had
\* passed, while another request was pending
C12_Witness ==
    /\ ev.kind = "message" /\ ev.how = "progress_unknown_id"
    /\ pendingRequests # <<>> /\ now > pendingRequests[1].lastActivity

\* the channel a message or progress frame of c is addressed to
TargetChannel(c, d) == JsOr(d.channel, wsChannel[c])

\* C13: when the broker accepts a message frame from a member of a channel, it
\* sends the broadcast envelope to every other open member of that channel and
\* not to the sending connection itself.
C13_BroadcastSkipsSender ==
    [][\A c \in Conns, d \in ClientFrames :
          (/\ d.type = "message"
           /\ IsString(TargetChannel(c, d))
           /\ c \in Members(TargetChannel(c, d))
           /\ ClientSend(c, d))
          => LET n == TargetChannel(c, d) IN
             out' = {To(o, BroadcastFrame(d.message, c, n)) :
                        o \in {x \in channels[n] \ {c} : IsOpen(x)}}]_vars

\* C14: a message frame from a connection that is not a member of the resolved
\* target channel (the frame's channel if given, else the connection's current
\* channel) is answered with one error envelope, sent to that connection only;
\* nothing is broadcast and the channel registry is unchanged.
C14_NonMemberMessageRejected ==
    [][\A c \in Conns, d \in ClientFrames :
          (/\ d.type = "message"
           /\ c \notin Members(TargetChannel(c, d))
           /\ ClientSend(c, d))
          => /\ \E e \in out' : out' = {e} /\ e.to = c /\ e.frame.type = "error"
             /\ channels' = channels
             /\ wsChannel' = wsChannel]_vars
\* a connection was refused a message on a channel it never joined while
\* another open connection was a member of that channel
C14_Witness ==
    \E c \in Conns, o \in Conns, n \in ChannelNames :
        /\ o # c
        /\ out = {To(c, ErrorFrame("Must join the channel first or provide a valid channel."))}
        /\ IsOpen(c) /\ IsOpen(o)
        /\ o \in Members(n) /\ c \notin Members(n) /\ wsChannel[c] # n
        /\ wsChannel[c] # ""

\* C15: a send of a command other than join while the transport is OPEN and no
\* channel is joined is rejected with the must-join error; no pending request
\* is registered, no timer is started, no id is drawn and no frame is
\* transmitted.
C15_MustJoinFirst ==
    [][(/\ ws = "OPEN" /\ ~Truthy(currentChannel)
        /\ DSend({DefaultTimeoutMs}, BOOLEAN))
       => /\ Len(calls') = Len(calls) + 1
          /\ Promise(calls', Len(calls')) = <<"rejected", "must-join">>
          /\ \A p \in DOMAIN calls : calls'[p] = calls[p]
          /\ pendingRequests' = pendingRequests
          /\ uuids' = uuids
          /\ toBroker' = toBroker]_vars
\* a command was refused on an open socket while the join was still pending
C15_Witness ==
    /\ ev.kind = "send" /\ ws = "OPEN" /\ currentChannel = NoChannel
    /\ Len(calls) = 2
    /\ calls[1].viaJoin /\ calls[1].state = "pending"
    /\ calls[2].command = GetCmd
    /\ Promise(calls, 2) = <<"rejected", "must-join">>
    /\ Len(pendingRequests) = 1 /\ Len(toBroker) = 1 /\ uuids = 1

\* C16: lazy connect. A send issued while the transport is not OPEN, with the
\* connection config set, waits for the handle to open; when the transport
\* reports OPEN the send is re-issued once, its command frame is transmitted
\* and its request is pending under the frame's id.
C16_LazySendTransmitted ==
    [][\A p \in DOMAIN calls :
          (HasListener(p) /\ DOpen)
          => /\ calls'[p].state = "pending"
             /\ \E i \in DOMAIN pendingRequests', j \in DOMAIN toBroker' :
                   /\ pendingRequests'[i].call = p
                   /\ toBroker'[j].id = pendingRequests'[i].id
                   /\ MsgCommand(toBroker'[j]) = calls[p].command]_vars

\* C17: every transition of the transport to OPEN clears the connect timer and
\* resets the current channel to none, so that on a new connection no command
\* other than join is transmitted until a join has completed on it: (1) the
\* open handler clears the timer and the channel; (2) the channel becomes set
\* only in a step, taken with the socket open, that resolves a pending join;
\* (3) a frame of a command other than join is transmitted only with the
\* channel set; (4) a pending request was always registered on the current
\* connection, the table being empty whenever the socket is not open.
C17_OpenResetsChannel ==
    /\ [][/\ DOpen => (connTimer' = FALSE /\ currentChannel' = NoChannel)
          /\ (currentChannel' # currentChannel /\ Truthy(currentChannel'))
             => /\ ws = "OPEN" /\ ws' = "OPEN"
                /\ \E p \in PendingCalls :
                      /\ calls[p].viaJoin /\ calls'[p].state = "resolved"
                      /\ currentChannel' = calls[p].channel
          /\ (\E j \in DOMAIN toBroker' :
                 /\ toBroker'[j].type # "join"
                 /\ \A i \in DOMAIN toBroker : toBroker[i] # toBroker'[j])
             => (ws = "OPEN" /\ Truthy(currentChannel))]_vars
    /\ [](ws # "OPEN" => pendingRequests = <<>>)
\* on a second connection, opened after a join had completed on the first, a
\* command was refused for want of a join
C17_Witness ==
    /\ handles = 2 /\ ws = "OPEN" /\ currentChannel = NoChannel
    /\ ev.kind = "send" /\ Len(calls) = 2
    /\ calls[1].viaJoin /\ calls[1].state = "resolved"
    /\ calls[2].command = GetCmd
    /\ Promise(calls, 2) = <<"rejected", "must-join">>
    /\ toBroker = <<>>

\* C18: after the broker has processed the close of a connection, that
\* connection is a member of no channel's member set, whatever joins it
\* performed before, and nothing is sent to it any more.
C18_ClosedIsMemberOfNone ==
    \A c \in Conns :
        cstate[c] = "closed" => (ChannelsOf(c) = {} /\ \A x \in out : x.to # c)

\* C19: a malformed (non-JSON) frame received by the broker is answered with an
\* error envelope to the offending connection only: the channel registry, every
\* connection's membership and state are unchanged and no other connection
\* receives anything; afterwards every frame of every open connection is still
\* processed.
C19_MalformedFrameIsLocal ==
    /\ [][\A c \in Conns :
            ClientSend(c, Frame("#malformed", NoId, "", NoMsg))
            => /\ out' = {To(c, ErrorFrame("Error processing your message"))}
               /\ channels' = channels /\ wsChannel' = wsChannel
               /\ cstate' = cstate /\ activeConnections' = activeConnections]_vars
    /\ [](\A c \in Conns :
            out = {To(c, ErrorFrame("Error processing your message"))}
            => \A o \in Conns, d \in ClientFrames :
                  IsOpen(o) => ENABLED ClientSend(o, d))
\* a member of a channel sent a malformed frame while another open connection
\* was a member of the same channel
C19_Witness ==
    \E c \in Conns, o \in Conns, n \in ChannelNames :
        /\ o # c /\ IsOpen(c) /\ IsOpen(o)
        /\ out = {To(c, ErrorFrame("Error processing your message"))}
        /\ c \in Members(n) /\ o \in Members(n)

\* C20: error precedence. Whenever a response frame that is matched to a
\* pending request carries an error and also a result, each at the top level
\* or in the nested message, the request is rejected with that error and is
\* not resolved with the result.
C20_ErrorPrecedence ==
    [][\A f \in ResponseFrames :
          LET m == HandleMessageResponse(pendingRequests, f) IN
          (/\ Truthy(JsOr(f.error, MsgError(f)))
           /\ (f.result # Undef \/ MsgResult(f) # Undef)
           /\ m.hit /\ DReceive({f}))
          => Promise(calls', CallOf(m.id)) = <<"rejected", JsOr(f.error, MsgError(f))>>]_vars

\* C21: a frame that no matching strategy accepts, such as the broker's
\* welcome, join confirmation, peer notice or error envelope, or a broadcast
\* carrying no result, leaves the pending table with every request's timer,
\* every caller's promise and the current channel unchanged, and raises no
\* error: the handler returns on its unmatched path.
C21_UnmatchedFrameIgnored ==
    [][(/\ toDisp # <<>>
        /\ IsResponse(Head(toDisp))
        /\ ~HandleMessageResponse(pendingRequests, Head(toDisp)).hit
        /\ Receive)
       => /\ pendingRequests' = pendingRequests
          /\ calls' = calls
          /\ currentChannel' = currentChannel
          /\ ev'.how = "none"]_vars
\* an unmatched frame was handled while two requests were pending
C21_Witness ==
    /\ ev.kind = "message" /\ ev.how = "none"
    /\ Len(pendingRequests) = 2
    /\ \A p \in DOMAIN calls : calls[p].state = "pending"

\* C22: a timeout is terminal for that one command only. (1) When the final
\* timeout of a request fires (no extension left, or the timer set by a
\* progress frame), its entry is removed and its caller rejected with a timeout
\* error, while every other entry, with its timer, and every other promise are
\* untouched. (2) A result frame that names an id no longer in the table, as
\* that of a request that timed out, settles nothing.
C22_TimeoutIsTerminalForOne ==
    [][/\ \A i \in DOMAIN pendingRequests :
             LET e == pendingRequests[i] IN
             (TimerFire(i) /\ (e.kind = "progress" \/ e.rem = 0))
             => /\ pendingRequests' = Remove(pendingRequests, e.id)
                /\ calls'[e.call].state = "rejected"
                /\ calls'[e.call].value \in {"timeout", "timeout-after-progress"}
                /\ \A q \in DOMAIN calls : q # e.call => calls'[q] = calls[q]
       /\ \A f \in TerminalFrames :
             (~HasPending(pendingRequests, MsgId(f)) /\ DReceive({f}))
             => (pendingRequests' = pendingRequests /\ calls' = calls)]_vars
\* the result frame of a request that had timed out after all its extensions
\* was handled while another request stayed pending
C22_Witness ==
    /\ ev.kind = "message" /\ ev.how = "none"
    /\ uuids = 2 /\ Len(calls) = 2 /\ Len(pendingRequests) = 1
    /\ Promise(calls, 1) = <<"rejected", "timeout">>
    /\ calls[2].state = "pending"

C25_ConnectIsIdempotent ==
    /\ [][/\ (ws = "CONNECTING" /\ DSend({DefaultTimeoutMs}, BOOLEAN))
             => /\ ws' = ws /\ handles' = handles
                /\ connTimer' = connTimer /\ staleTimers' = staleTimers
                /\ SubSeq(onOpen', 1, Len(onOpen)) = onOpen
                /\ pendingRequests' = pendingRequests
                /\ currentChannel' = currentChannel
          /\ DConnectToFigma
             => /\ ws \notin {"OPEN", "CONNECTING"}
                /\ ws' = "CONNECTING" /\ handles' = handles + 1
                /\ onOpen' = <<>> /\ connTimer'
                /\ pendingRequests' = pendingRequests
                /\ currentChannel' = currentChannel]_vars
    /\ [](ws \in {"OPEN", "CONNECTING"} => ~ENABLED DConnectToFigma)
\* a second handle is connecting, and a lazy send has called connectToFigma on
\* it without effect
C25_Witness ==
    /\ handles = 2 /\ ws = "CONNECTING" /\ connTimer
    /\ ev.kind = "send" /\ Len(onOpen) = 1
    /\ \E p \in DOMAIN calls : calls[p].state = "lazy" /\ ~HasListener(p)

C27_NoEmptyChannel == \A n \in DOMAIN channels : channels[n] # {}

\* C28: the matching strategies are tried in the fixed order 1 to 7 and only
\* the first that matches is applied. (1) Handling one inbound frame settles
\* and removes at most one pending request. (2) When the frame's top-level id
\* is that of pending request A and its nested id that of a different pending
\* request B, with a nested result, A is resolved with that result and
\* removed, and B stays pending with its entry untouched.
C28_FirstMatchWins ==
    [][/\ DReceive(InFrames)
          => /\ Len(pendingRequests') >= Len(pendingRequests) - 1
             /\ Cardinality({p \in DOMAIN calls : calls'[p] # calls[p]}) <= 1
       /\ \A f \in RoundTripFrames :
             (/\ MsgId(f) \notin {NoId, f.id}
              /\ HasPending(pendingRequests, f.id)
              /\ HasPending(pendingRequests, MsgId(f))
              /\ DReceive({f}))
             => /\ Promise(calls', CallOf(f.id)) = <<"resolved", MsgResult(f)>>
                /\ pendingRequests' = Remove(pendingRequests, f.id)
                /\ calls'[CallOf(MsgId(f))] = calls[CallOf(MsgId(f))]]_vars
\* a frame naming A at the top level and B in its nested message resolved A
\* and left B pending
C28_Witness ==
    /\ ev.kind = "message" /\ ev.how = "nested_direct_id"
    /\ ev.frame \in RoundTripFrames /\ ev.id = ev.frame.id
    /\ MsgId(ev.frame) \notin {NoId, ev.id}
    /\ HasPending(pendingRequests, MsgId(ev.frame))
    /\ ~HasPending(pendingRequests, ev.id)
    /\ calls[CallOf(MsgId(ev.frame))].state = "pending"

\* C29: every frame of progress type whose id (top-level, or the nested message
\* id when the top-level id is absent) equals a pending request's id updates
\* that request's lastActivity and replaces its current timer with a fresh
\* timer of the fixed progress extension window.
C29_ProgressAlwaysExtends ==
    [][\A f \in TimerFrames :
          (/\ f.type = "progress_update"
           /\ HasPending(pendingRequests, RequestIdOf(f))
           /\ DReceive({f}))
          => LET e == Entry(pendingRequests', RequestIdOf(f)) IN
             /\ HasPending(pendingRequests', RequestIdOf(f))
             /\ e.lastActivity = now
             /\ e.kind = "progress"
             /\ e.due = now + ProgressExtensionMs]_vars

\* the time at which the timers of entry e reject its request when no frame
\* arrives: a command timer with rem extensions left is followed by timers of
\* timeoutMs * (ext + 1), ..., timeoutMs * (ext + rem); the timer set by a
\* progress frame is final
WouldRejectAt(e, timeoutMs) ==
    IF e.kind = "command"
    THEN e.due + timeoutMs * (e.rem * e.ext + (e.rem * (e.rem + 1)) \div 2)
    ELSE e.due

\* C30: receiving a progress frame for a pending request never causes that
\* request to be rejected by timeout earlier than it would have been rejected
\* had the progress frame not arrived, whatever its timeoutMs and its number
\* of remaining extensions.
C30_ProgressNeverShortens ==
    [][\A f \in TimerFrames :
          (/\ f.type = "progress_update"
           /\ HasPending(pendingRequests, RequestIdOf(f))
           /\ DReceive({f}))
          => LET e == Entry(pendingRequests, RequestIdOf(f))
                 t == calls[e.call].timeoutMs
             IN /\ HasPending(pendingRequests', RequestIdOf(f))
                /\ WouldRejectAt(Entry(pendingRequests', RequestIdOf(f)), t)
                       >= WouldRejectAt(e, t)]_vars

\* C31: with no response and no progress, the waits before successive timer
\* expiries of a pending request increase geometrically, starting from
\* timeoutMs: the first wait is timeoutMs, and each later wait is the previous
\* one times a constant factor greater than 1. At the second expiry the first
\* wait w1, the second wait w2 and the wait w3 then started satisfy
\* w1 = timeoutMs, w2 > w1 and w2 / w1 = w3 / w2.
C31_GeometricExtension ==
    [][\A i \in DOMAIN pendingRequests :
          LET e == pendingRequests[i]
              w1 == calls[e.call].timeoutMs
              w2 == (now - e.lastActivity) - w1
          IN (e.kind = "command" /\ e.ext = 2 /\ e.rem > 0 /\ TimerFire(i) /\ Alone)
             => /\ HasPending(pendingRequests', e.id)
                /\ w2 > w1
                /\ w2 * w2 = w1 * (Entry(pendingRequests', e.id).due - now)]_vars

\* C32: each registered request is settled at most once. Whatever the
\* interleaving of response frames, progress frames, timer expiries, failed
\* transmissions and connection closes, a promise that is resolved or rejected
\* is never settled again and no timer callback of its request runs later;
\* every entry of the pending table belongs to a request that is still
\* pending, and no two entries belong to the same request.
C32_SettledAtMostOnce ==
    /\ [][\A p \in DOMAIN calls :
             IsSettled(p) => (p \in DOMAIN calls' /\ calls'[p] = calls[p])]_vars
    /\ [](\A i \in DOMAIN pendingRequests :
             /\ calls[pendingRequests[i].call].state = "pending"
             /\ \A j \in DOMAIN pendingRequests :
                   (pendingRequests[j].call = pendingRequests[i].call
                    \/ pendingRequests[j].id = pendingRequests[i].id) => j = i)
\* one request was rejected by its final timer, another resolved by a frame,
\* and a frame that arrived afterwards settled nothing
C32_Witness ==
    /\ \E p \in DOMAIN calls : Promise(calls, p) = <<"rejected", "timeout">>
    /\ \E p \in DOMAIN calls : Promise(calls, p) = <<"resolved", "r42">>
    /\ pendingRequests = <<>>
    /\ ev.kind = "message" /\ ev.how = "none"

\* C33: in every reachable dispatcher state the pending table contains exactly
\* the registered requests that are not yet settled: a request has an entry if
\* and only if it was registered and has been neither resolved, rejected,
\* timed out nor failed on send, it has one entry only, and each entry has
\* exactly one live timer (a command timer or a progress timer, not overdue).
C33_TableIsTheUnsettled ==
    /\ \A p \in DOMAIN calls :
          Cardinality({i \in DOMAIN pendingRequests : pendingRequests[i].call = p})
              = IF calls[p].state = "pending" THEN 1 ELSE 0
    /\ \A i \in DOMAIN pendingRequests :
          /\ pendingRequests[i].call \in DOMAIN calls
          /\ pendingRequests[i].kind \in {"command", "progress"}
          /\ pendingRequests[i].due >= now
\* one request is in the table with its timer while another failed on send
C33_Witness ==
    /\ Len(pendingRequests) = 1
    /\ calls[pendingRequests[1].call].state = "pending"
    /\ pendingRequests[1].kind = "progress"
    /\ \E p \in DOMAIN calls : Promise(calls, p) = <<"rejected", "send-failed">>

\* C34: an echo of the dispatcher's own command frame returned by the broker,
\* a broadcast with no top-level id whose nested message carries the pending
\* id and the command but no result and no error, never settles or removes the
\* pending request, provided the pending id does not contain the command name.
C34_EchoSettlesNothing ==
    [][(/\ toDisp # <<>>
        /\ Head(toDisp).type = "broadcast" /\ Head(toDisp).id = NoId
        /\ HasPending(pendingRequests, MsgId(Head(toDisp)))
        /\ MsgCommand(Head(toDisp)) # NoId
        /\ MsgResult(Head(toDisp)) = Undef /\ MsgError(Head(toDisp)) = Undef
        /\ ~Includes(ToLowerCase(MsgId(Head(toDisp))),
                     ToLowerCase(MsgCommand(Head(toDisp))))
        /\ Receive)
       => LET id == MsgId(Head(toDisp)) IN
          /\ HasPending(pendingRequests', id)
          /\ Entry(pendingRequests', id) = Entry(pendingRequests, id)
          /\ calls'[CallOf(id)] = calls[CallOf(id)]]_vars
\* the broker relayed a command of the dispatcher back to it, the dispatcher
\* handled the echo, and the command is still pending
C34_Witness ==
    /\ ev.kind = "message" /\ ev.how = "none"
    /\ ws = "OPEN" /\ dconn # 0
    /\ \E p \in DOMAIN calls :
          /\ calls[p].command = GetCmd /\ calls[p].state = "pending"
          /\ HasPending(pendingRequests, Uuid(p))
          /\ dconn \in Members(calls[p].channel)
          /\ \A i \in DOMAIN toBroker : toBroker[i].id # Uuid(p)
          /\ \A i \in DOMAIN toDisp : MsgId(toDisp[i]) # Uuid(p)

C36_FuzzyIdMatch ==
    [][\A f \in HeurFrames :
          LET P == pendingRequests
              fuzzy == {i \in DOMAIN P : Includes(P[i].id, f.id) \/ Includes(f.id, P[i].id)}
          IN (/\ IsResponse(f) /\ f.id # NoId
              /\ (f.result # Undef \/ MsgResult(f) # Undef
                  \/ f.error # Undef \/ MsgError(f) # Undef)
              /\ fuzzy # {}
              /\ ~Strategy1(P, f) /\ ~Strategy2(P, f)
              /\ ~Strategy3(P, f) /\ ~Strategy4(P, f)
              /\ DReceive({f}))
             => LET e == P[MinOf(fuzzy)]
                    err == JsOr(f.error, MsgError(f))
                IN /\ Promise(calls', e.call) =
                          IF Truthy(err) THEN <<"rejected", err>>
                          ELSE <<"resolved", JsOr(f.result, MsgResult(f))>>
                   /\ pendingRequests' = Remove(P, e.id)
                   /\ \A q \in DOMAIN calls : q # e.call => calls'[q] = calls[q]]_vars
\* with two requests pending, a frame whose top-level id contains the id of
\* the second one settled the second and left the first pending
C36_Witness ==
    /\ ev.kind = "message" /\ ev.how = "fuzzy_id"
    /\ ev.frame.id = Uuid(2) \o <<"x">> /\ ev.id = Uuid(2)
    /\ Len(pendingRequests) = 1 /\ pendingRequests[1].id = Uuid(1)
    /\ IsSettled(2) /\ calls[1].state = "pending"

\* C37: Strategy 7. When no earlier strategy matched and the frame's nested
\* message declares a command name, then among the pending requests whose id
\* contains that name (case-insensitively) the one with the greatest
\* lastActivity is settled (rejected with the frame's error if it has one,
\* resolved with its result or an inferred result otherwise) and removed, and
\* no other pending request or promise is affected; if no pending id contains
\* the name, nothing is settled.
C37_CommandTypeMatch ==
    [][\A f \in HeurFrames :
          LET P == pendingRequests
              named == {i \in DOMAIN P :
                          Includes(ToLowerCase(P[i].id), ToLowerCase(MsgCommand(f)))}
          IN (/\ IsResponse(f) /\ MsgCommand(f) # NoId
              /\ ~Strategy1(P, f) /\ ~Strategy2(P, f) /\ ~Strategy3(P, f)
              /\ ~Strategy4(P, f) /\ ~Strategy5(P, f) /\ ~Strategy6(P, f)
              /\ DReceive({f}))
             => IF named = {}
                THEN pendingRequests' = P /\ calls' = calls
                ELSE \E i \in named :
                        LET err == JsOr(MsgError(f), f.error) IN
                        /\ \A j \in named : P[j].lastActivity <= P[i].lastActivity
                        /\ Promise(calls', P[i].call) =
                              IF Truthy(err) THEN <<"rejected", err>>
                              ELSE <<"resolved",
                                     JsOr(JsOr(MsgResult(f), f.result), "#inferred")>>
                        /\ pendingRequests' = Remove(P, P[i].id)
                        /\ \A q \in DOMAIN calls :
                              q # P[i].call => calls'[q] = calls[q]]_vars
\* both pending ids contained the declared command name, and the request
\* registered second, whose activity was the more recent, was the one settled
C37_Witness ==
    /\ ev.kind = "message" /\ ev.how = "command_type_match"
    /\ MsgCommand(ev.frame) = <<"A", "B">> /\ ev.id = Uuid(2)
    /\ Len(pendingRequests) = 1 /\ pendingRequests[1].id = Uuid(1)
    /\ IsSettled(2) /\ calls[1].state = "pending"

\* C38: the pending request is registered, with its timer started, before the
\* frame is transmitted: a send that hands a frame to the socket leaves the
\* frame's id in the pending table with a command timer of timeoutMs and all
\* extensions. If transmitting throws, nothing is transmitted, no entry and no
\* timer of that request remain, the caller is rejected with a send-failure
\* error, and every other pending request and promise is unchanged.
C38_RegisterThenTransmit ==
    [][/\ (ws = "OPEN" /\ (DJoinChannel({FALSE}) \/ DSend({DefaultTimeoutMs}, {FALSE}))
           /\ toBroker' # toBroker)
          => LET id == Uuid(uuids + 1)
                 p == Len(calls) + 1
             IN /\ Len(toBroker') = Len(toBroker) + 1
                /\ toBroker'[Len(toBroker')].id = id
                /\ pendingRequests' =
                      Append(pendingRequests,
                             [id |-> id, call |-> p, kind |-> "command",
                              rem |-> MaxTimeoutExtensions, ext |-> 1,
                              due |-> now + DefaultTimeoutMs, lastActivity |-> now])
                /\ calls'[p].state = "pending"
       /\ (ws = "OPEN" /\ (DJoinChannel({TRUE}) \/ DSend({DefaultTimeoutMs}, {TRUE})))
          => /\ toBroker' = toBroker
             /\ pendingRequests' = pendingRequests
             /\ Promise(calls', Len(calls) + 1) = <<"rejected", "send-failed">>
             /\ \A q \in DOMAIN calls : calls'[q] = calls[q]]_vars
\* a transmission threw while another request was pending: the caller was
\* rejected and the table holds the other request only
C38_Witness ==
    /\ ev.kind = "send"
    /\ Len(calls) = 2 /\ Promise(calls, 2) = <<"rejected", "send-failed">>
    /\ calls[1].state = "pending"
    /\ Len(pendingRequests) = 1 /\ pendingRequests[1].call = 1
    /\ Len(toBroker) = 1

\* C39: a connection attempt that is still CONNECTING when the
\* connection-establishment timer expires is forcibly terminated, which runs
\* the close path and leads to a retry; this holds for every connection
\* attempt, and the timer is cancelled if the attempt opens or closes first.
\* So every attempt in progress has a live establishment timer, the expiry of
\* the timer while CONNECTING closes the attempt, and no timer is left once
\* the attempt has opened or closed.
C39_EveryAttemptTimesOut ==
    /\ [](ws = "CONNECTING" => connTimer)
    /\ [](ws \in {"OPEN", "CLOSED"} => ~connTimer)
    /\ [][(ws = "CONNECTING" /\ DConnectionTimeout)
          => (ws' = "CLOSED" /\ ~connTimer')]_vars

\* C40: in every reachable broker state the activeConnections counter is
\* non-negative and equals the number of connections that have been opened
\* and not yet closed, whichever combination of the open handler, the
\* per-connection close override and the global close handler ran.
C40_ActiveConnectionsExact ==
    /\ activeConnections >= 0
    /\ activeConnections = Cardinality({c \in Conns : IsOpen(c)})

=============================================================================
